---- MODULE Spec2Model ----
(***************************************************************************)
(* Seating engine of maitre_d: build_clusters, assign_cluster_to_area,     *)
(* place_cluster_into_area, split_oversized_families,                      *)
(* generate_conflict_report, visualize_areas and the pipeline              *)
(* create_area_aware_seating (seating_chart.py), over the Family dataclass *)
(* of family.py.                                                           *)
(*                                                                         *)
(* A Family is a record [email, guests]: email is the identity key         *)
(* (Family.__eq__ / Family.__hash__ compare the email only) and guests is  *)
(* the length of the guest list (Family.size = len(guests)).  Area and     *)
(* table indices are 0-based in the code; an area index a is position a+1  *)
(* of the sequence areas, a table index t is position t+1 of its area.     *)
(***************************************************************************)
EXTENDS Integers, Sequences, FiniteSets, TLC

\* ---------------------------------------------------------------- bounds
NumUnits == 3
MaxSize == 2
MaxCap == 3
MaxReq == 1

Emails == 1..NumUnits

\* ------------------------------------------------------------ family.py
\* The fields of the dataclass: the keyword arguments Family(...) accepts.
FamilyFields == {"email", "phone", "address", "requests", "submission", "guests"}

\* Every attribute a Family instance answers to: its fields and properties.
FamilyAttrs == FamilyFields \cup {"first_name", "last_name", "size"}

\* Family(**kwargs): the generated __init__ rejects an unknown keyword with a
\* TypeError.  kwargs is a record; only email and guests are carried on.
FamilyInit(kwargs) ==
    IF DOMAIN kwargs \subseteq FamilyFields
    THEN [raised |-> FALSE, fam |-> [email |-> kwargs.email, guests |-> kwargs.guests]]
    ELSE [raised |-> TRUE, fam |-> [email |-> 0, guests |-> 0]]

\* getattr(fam, name): AttributeError unless the class has the attribute.
HasAttr(name) == name \in FamilyAttrs

Size(f) == f.guests

FamEq(a, b) == a.email = b.email

\* first_name / last_name are those of guests[0]: the fields first and last
\* of a unit that carries names, else one display name per email.
FirstName(f) == IF "first" \in DOMAIN f THEN f.first ELSE f.email
LastName(f) == IF "last" \in DOMAIN f THEN f.last ELSE f.email

Fam(e, n) == [email |-> e, guests |-> n]

\* ------------------------------------------------------- python helpers
RECURSIVE SumSizes(_)
SumSizes(s) == IF s = <<>> THEN 0 ELSE Size(Head(s)) + SumSizes(Tail(s))

\* x in list / x in set, by __eq__
InSeq(f, s) == \E i \in 1..Len(s) : FamEq(s[i], f)
InSet(f, S) == \E g \in S : FamEq(g, f)

\* set.add: an element equal to one already held is not added
SetAdd(S, f) == IF InSet(f, S) THEN S ELSE S \cup {f}

\* list.index(x): position of the first equal element (0-based)
IndexOf(s, f) == (CHOOSE i \in 1..Len(s) : FamEq(s[i], f) /\ \A j \in 1..(i-1) : ~FamEq(s[j], f)) - 1

\* A dict is the sequence of its <<key, value>> items in insertion order.
DictHas(d, k) == \E i \in 1..Len(d) : FamEq(d[i][1], k)
DictGet(d, k, default) ==
    IF DictHas(d, k) THEN d[CHOOSE i \in 1..Len(d) : FamEq(d[i][1], k)][2] ELSE default
DictSet(d, k, v) ==
    IF DictHas(d, k)
    THEN [i \in 1..Len(d) |-> IF FamEq(d[i][1], k) THEN <<d[i][1], v>> ELSE d[i]]
    ELSE Append(d, <<k, v>>)

\* math.ceil(a / b) for a >= 0, b >= 1
Ceil(a, b) == (a + b - 1) \div b

Min(a, b) == IF a <= b THEN a ELSE b

\* Iteration order of a set of Family: it follows the hashes of the email
\* strings, which differ from one interpreter run to the next.  ord is a
\* permutation of the emails, the order one run iterates in.
Perms == {p \in [1..NumUnits -> Emails] : \A i, j \in 1..NumUnits : p[i] = p[j] => i = j}
RECURSIVE IterSet(_, _, _)
IterSet(S, ord, i) ==
    IF i > Len(ord) THEN <<>>
    ELSE (IF \E g \in S : g.email = ord[i]
          THEN <<CHOOSE g \in S : g.email = ord[i]>> ELSE <<>>) \o IterSet(S, ord, i + 1)

\* ------------------------------------------------- 1. build_clusters
\* Mutant of GraphAddAll: only graph[fam].add(other), no edge back.
RECURSIVE GraphAddAllOneWay(_, _, _)
GraphAddAllOneWay(graph, fam, others) ==
    IF others = <<>> THEN graph
    ELSE GraphAddAllOneWay([graph EXCEPT ![fam.email] = SetAdd(@, Head(others))],
                           fam, Tail(others))

\* Lines 51-57: graph[fam].add(other); graph[other].add(fam) for every
\* fam of families and every other of requests_map.get(fam, []).
RECURSIVE GraphAddAll(_, _, _)
GraphAddAll(graph, fam, others) ==
    IF others = <<>> THEN graph
    ELSE LET other == Head(others)
             g1 == [graph EXCEPT ![fam.email] = SetAdd(@, other)]
             g2 == [g1 EXCEPT ![other.email] = SetAdd(@, fam)]
         IN GraphAddAll(g2, fam, Tail(others))

RECURSIVE BuildGraph(_, _, _)
BuildGraph(graph, families, requests_map) ==
    IF families = <<>> THEN graph
    ELSE BuildGraph(GraphAddAll(graph, Head(families), DictGet(requests_map, Head(families), <<>>)),
                    Tail(families), requests_map)

\* Lines 71-77: the BFS from one seed.  visited is a set of emails.
RECURSIVE Bfs(_, _, _, _, _)
Bfs(queue, visited, cluster, graph, ord) ==
    IF queue = <<>> THEN [visited |-> visited, cluster |-> cluster]
    ELSE LET cur == Head(queue)
             nb == SelectSeq(IterSet(graph[cur.email], ord, 1), LAMBDA n : n.email \notin visited)
         IN Bfs(Tail(queue) \o nb, visited \cup {nb[i].email : i \in 1..Len(nb)},
                cluster \o nb, graph, ord)

\* Mutant of ClusterLoop: the list cluster is created once, before the loop,
\* so every cluster starts from the members of the one before it.
RECURSIVE ClusterLoopKeep(_, _, _, _, _)
ClusterLoopKeep(rest, visited, clusters, graph, ord) ==
    IF rest = <<>> THEN clusters
    ELSE LET fam == Head(rest)
             kept == IF clusters = <<>> THEN <<>> ELSE clusters[Len(clusters)]
         IN IF fam.email \in visited
            THEN ClusterLoopKeep(Tail(rest), visited, clusters, graph, ord)
            ELSE LET r == Bfs(<<fam>>, visited \cup {fam.email}, Append(kept, fam), graph, ord)
                 IN ClusterLoopKeep(Tail(rest), r.visited, Append(clusters, r.cluster), graph, ord)

\* Mutant of ClusterLoop: a finished cluster is put in front of the list.
RECURSIVE ClusterLoopPrepend(_, _, _, _, _)
ClusterLoopPrepend(rest, visited, clusters, graph, ord) ==
    IF rest = <<>> THEN clusters
    ELSE LET fam == Head(rest)
         IN IF fam.email \in visited
            THEN ClusterLoopPrepend(Tail(rest), visited, clusters, graph, ord)
            ELSE LET r == Bfs(<<fam>>, visited \cup {fam.email}, <<fam>>, graph, ord)
                 IN ClusterLoopPrepend(Tail(rest), r.visited, <<r.cluster>> \o clusters, graph, ord)

\* Lines 63-79
RECURSIVE ClusterLoop(_, _, _, _, _)
ClusterLoop(rest, visited, clusters, graph, ord) ==
    IF rest = <<>> THEN clusters
    ELSE LET fam == Head(rest)
         IN IF fam.email \in visited
            THEN ClusterLoop(Tail(rest), visited, clusters, graph, ord)
            ELSE LET r == Bfs(<<fam>>, visited \cup {fam.email}, <<fam>>, graph, ord)
                 IN ClusterLoop(Tail(rest), r.visited, Append(clusters, r.cluster), graph, ord)

build_clusters(families, requests_map, ord) ==
    ClusterLoop(families, {}, <<>>,
                BuildGraph([e \in Emails |-> {}], families, requests_map), ord)

\* Lines 379-380: clusters.sort(key=lambda c: families_sorted.index(c[0])),
\* a stable sort: insertion after the last cluster whose key is not larger.
RECURSIVE InsertByKey(_, _, _)
InsertByKey(sorted, c, families) ==
    IF sorted = <<>> THEN <<c>>
    ELSE IF IndexOf(families, c[1]) < IndexOf(families, Head(sorted)[1])
         THEN <<c>> \o sorted
         ELSE <<Head(sorted)>> \o InsertByKey(Tail(sorted), c, families)

RECURSIVE SortClusters(_, _, _)
SortClusters(clusters, sorted, families) ==
    IF clusters = <<>> THEN sorted
    ELSE SortClusters(Tail(clusters), InsertByKey(sorted, Head(clusters), families), families)

\* ------------------------------------------- 2. assign_cluster_to_area
\* None (best_area before any area was seen)
NoneVal == -1
\* float("inf"): the extra of an area that cannot take the cluster
Inf == -2

\* extra < best_extra over {0, 1, 2, ...} and inf
LessExtra(a, b) == a # Inf /\ (b = Inf \/ a < b)

\* Mutant of AssignStep: among equal extras the smaller remaining wins.
AssignStepTightest(best, area_idx, num_tables, used, table_size, cluster_size) ==
    LET remaining == num_tables * table_size - used
        extra == IF remaining >= cluster_size THEN 0 ELSE Inf
    IN IF best.area = NoneVal \/ LessExtra(extra, best.extra)
       THEN [area |-> area_idx, extra |-> extra, remaining |-> remaining]
       ELSE IF extra = best.extra /\ remaining < best.remaining
            THEN [best EXCEPT !.area = area_idx, !.remaining = remaining]
            ELSE best

\* Mutant of AssignStep: an area without room counts the tables it would
\* have to add instead of inf.
AssignStepExtraTables(best, area_idx, num_tables, used, table_size, cluster_size) ==
    LET remaining == num_tables * table_size - used
        extra == IF remaining >= cluster_size THEN 0
                 ELSE Ceil(cluster_size - remaining, table_size)
    IN IF best.area = NoneVal \/ LessExtra(extra, best.extra)
       THEN [area |-> area_idx, extra |-> extra, remaining |-> remaining]
       ELSE IF extra = best.extra /\ remaining > best.remaining
            THEN [best EXCEPT !.area = area_idx, !.remaining = remaining]
            ELSE best

\* Lines 116-139: one iteration of the loop over the existing areas.
\* best = [area, extra, remaining]; area = NoneVal while best_extra is None.
AssignStep(best, area_idx, num_tables, used, table_size, cluster_size) ==
    LET remaining == num_tables * table_size - used
        extra == IF remaining >= cluster_size THEN 0 ELSE Inf
    IN IF best.area = NoneVal \/ LessExtra(extra, best.extra)
       THEN [area |-> area_idx, extra |-> extra, remaining |-> remaining]
       ELSE IF extra = best.extra /\ remaining > best.remaining
            THEN [best EXCEPT !.area = area_idx, !.remaining = remaining]
            ELSE best

RECURSIVE AssignLoop(_, _, _, _, _, _)
AssignLoop(best, i, ntables, area_used, table_size, cluster_size) ==
    IF i > Len(ntables) THEN best
    ELSE AssignLoop(AssignStep(best, i - 1, ntables[i], area_used[i], table_size, cluster_size),
                    i + 1, ntables, area_used, table_size, cluster_size)

\* Lines 110-155 on what the function reads of its arguments: the size of the
\* cluster, the number of tables of each area and the used seats of each area.
AssignArea(cluster_size, ntables, area_used, table_size) ==
    LET best == AssignLoop([area |-> NoneVal, extra |-> Inf, remaining |-> 0],
                           1, ntables, area_used, table_size, cluster_size)
        new_area_idx == Len(ntables)
        extra_new == Ceil(cluster_size, table_size)
    IN IF best.area = NoneVal \/ LessExtra(extra_new, best.extra)
       THEN new_area_idx
       ELSE best.area

assign_cluster_to_area(cluster, areas, area_used, table_size) ==
    AssignArea(SumSizes(cluster), [i \in 1..Len(areas) |-> Len(areas[i])], area_used, table_size)

\* ------------------------------------------ 3. place_cluster_into_area
\* Line 196: the number of units of the table that are in requested
Score(table, requested) == Cardinality({j \in 1..Len(table) : InSeq(table[j], requested)})

\* Mutant of ScanTables: line 198 reads score >= best_score, so among equal
\* scores the last table wins.
RECURSIVE ScanTablesLast(_, _, _, _, _, _, _, _)
ScanTablesLast(i, fam, tables, table_used, table_size, requested, best_table, best_score) ==
    IF i > Len(tables) THEN best_table
    ELSE IF table_size - table_used[i] < Size(fam)
         THEN ScanTablesLast(i + 1, fam, tables, table_used, table_size, requested, best_table, best_score)
         ELSE LET score == Score(tables[i], requested)
              IN IF score >= best_score
                 THEN ScanTablesLast(i + 1, fam, tables, table_used, table_size, requested, i - 1, score)
                 ELSE ScanTablesLast(i + 1, fam, tables, table_used, table_size, requested, best_table, best_score)

\* Lines 187-200: the scan for the best table; best_table = NoneVal for None
RECURSIVE ScanTables(_, _, _, _, _, _, _, _)
ScanTables(i, fam, tables, table_used, table_size, requested, best_table, best_score) ==
    IF i > Len(tables) THEN best_table
    ELSE IF table_size - table_used[i] < Size(fam)
         THEN ScanTables(i + 1, fam, tables, table_used, table_size, requested, best_table, best_score)
         ELSE LET score == Score(tables[i], requested)
              IN IF score > best_score
                 THEN ScanTables(i + 1, fam, tables, table_used, table_size, requested, i - 1, score)
                 ELSE ScanTables(i + 1, fam, tables, table_used, table_size, requested, best_table, best_score)

\* Lines 210-218: the first table with space, NoneVal when there is none
FirstFit(fam, table_used, table_size) ==
    IF \E i \in 1..Len(table_used) : table_used[i] + Size(fam) <= table_size
    THEN (CHOOSE i \in 1..Len(table_used) :
             /\ table_used[i] + Size(fam) <= table_size
             /\ \A j \in 1..(i-1) : ~(table_used[j] + Size(fam) <= table_size)) - 1
    ELSE NoneVal

\* Mutant of ChooseTable: best_score starts at 0 and there is no first fit,
\* so only a table that holds a requested unit is taken.
ChooseTableNearOnly(fam, tables, table_used, table_size, requests_map) ==
    LET requested == DictGet(requests_map, fam, <<>>)
        best_table == ScanTables(1, fam, tables, table_used, table_size, requested, NoneVal, 0)
    IN IF best_table # NoneVal THEN best_table ELSE Len(tables)

\* Lines 185-226: the index of the table the unit goes to; Len(tables) is a new table
ChooseTable(fam, tables, table_used, table_size, requests_map) ==
    LET requested == DictGet(requests_map, fam, <<>>)
        best_table == ScanTables(1, fam, tables, table_used, table_size, requested, NoneVal, -1)
    IN IF best_table # NoneVal THEN best_table
       ELSE IF FirstFit(fam, table_used, table_size) # NoneVal
            THEN FirstFit(fam, table_used, table_size)
            ELSE Len(tables)

\* Mutant of SeatAt: the continue of line 207 is missing, so a unit seated at
\* an existing table is seated again at a new one.
SeatAtNoContinue(tables, t, fam) ==
    IF t = Len(tables) THEN Append(tables, <<fam>>)
    ELSE Append([tables EXCEPT ![t + 1] = Append(@, fam)], <<fam>>)

\* Mutant of SeatAt: the unit is inserted at the front of the table's list.
SeatAtFront(tables, t, fam) ==
    IF t = Len(tables) THEN Append(tables, <<fam>>)
    ELSE [tables EXCEPT ![t + 1] = <<fam>> \o @]

SeatAt(tables, t, fam) ==
    IF t = Len(tables) THEN Append(tables, <<fam>>)
    ELSE [tables EXCEPT ![t + 1] = Append(@, fam)]

UsedAt(table_used, t, fam) ==
    IF t = Len(table_used) THEN Append(table_used, Size(fam))
    ELSE [table_used EXCEPT ![t + 1] = @ + Size(fam)]

\* Lines 181-226: the loop over the cluster.  With debug on, line 183 reads
\* fam.part of the first unit and raises AttributeError when Family has none.
RECURSIVE PlaceLoop(_, _, _, _, _, _)
PlaceLoop(cluster, tables, table_used, table_size, requests_map, debug) ==
    IF cluster = <<>> THEN [raised |-> FALSE, tables |-> tables]
    ELSE IF debug /\ ~HasAttr("part") THEN [raised |-> TRUE, tables |-> tables]
    ELSE LET fam == Head(cluster)
             t == ChooseTable(fam, tables, table_used, table_size, requests_map)
         IN PlaceLoop(Tail(cluster), SeatAt(tables, t, fam), UsedAt(table_used, t, fam),
                      table_size, requests_map, debug)

place_cluster_into_area(cluster, area_tables, table_size, requests_map, debug) ==
    PlaceLoop(cluster, area_tables,
              [i \in 1..Len(area_tables) |-> SumSizes(area_tables[i])],
              table_size, requests_map, debug)

\* --------------------------------------------- split_oversized_families
\* Lines 259-277: the parts of one oversized family.  The constructor call
\* of lines 264-272 passes part=part_idx; when it raises, so does the
\* function, before line 277 touches requests_map.
RECURSIVE SplitParts(_, _, _, _, _, _, _)
SplitParts(fam, part_idx, parts_needed, remaining, table_size, new_cluster, requests_map) ==
    IF part_idx >= parts_needed
    THEN [raised |-> FALSE, cluster |-> new_cluster, requests_map |-> requests_map]
    ELSE LET part_size == Min(table_size, remaining)
             made == FamilyInit([email |-> fam.email, phone |-> 0, address |-> 0,
                                 requests |-> 0, submission |-> 0,
                                 guests |-> Min(fam.guests, part_size),
                                 part |-> part_idx])
         IN IF made.raised
            THEN [raised |-> TRUE, cluster |-> <<>>, requests_map |-> requests_map]
            ELSE SplitParts(fam, part_idx + 1, parts_needed, remaining - part_size, table_size,
                            Append(new_cluster, made.fam),
                            DictSet(requests_map, made.fam, DictGet(requests_map, fam, <<>>)))

\* Lines 247-279
RECURSIVE SplitLoop(_, _, _, _)
SplitLoop(cluster, table_size, new_cluster, requests_map) ==
    IF cluster = <<>>
    THEN [raised |-> FALSE, cluster |-> new_cluster, requests_map |-> requests_map]
    ELSE LET fam == Head(cluster)
         IN IF Size(fam) <= table_size
            THEN SplitLoop(Tail(cluster), table_size, Append(new_cluster, fam), requests_map)
            ELSE LET r == SplitParts(fam, 0, Ceil(Size(fam), table_size), Size(fam),
                                     table_size, new_cluster, requests_map)
                 IN IF r.raised THEN r
                    ELSE SplitLoop(Tail(cluster), table_size, r.cluster, r.requests_map)

split_oversized_families(cluster, table_size, requests_map) ==
    SplitLoop(cluster, table_size, <<>>, requests_map)

\* ---------------------------------------------- 4. generate_conflict_report
\* Lines 297-301: location[fam] = (area_idx, table_idx); a later seat of an
\* equal unit overwrites an earlier one.  A layout is flattened to the
\* sequence of <<fam, <<area_idx, table_idx>>>> in iteration order.
RECURSIVE TableSeats(_, _, _, _)
TableSeats(table, a, t, k) ==
    IF k > Len(table) THEN <<>>
    ELSE <<<<table[k], <<a, t>>>>>> \o TableSeats(table, a, t, k + 1)

RECURSIVE AreaSeats(_, _, _)
AreaSeats(tables, a, t) ==
    IF t > Len(tables) THEN <<>>
    ELSE TableSeats(tables[t], a, t - 1, 1) \o AreaSeats(tables, a, t + 1)

RECURSIVE Seats(_, _)
Seats(areas, a) ==
    IF a > Len(areas) THEN <<>>
    ELSE AreaSeats(areas[a], a - 1, 1) \o Seats(areas, a + 1)

RECURSIVE DictFrom(_, _)
DictFrom(items, d) ==
    IF items = <<>> THEN d
    ELSE DictFrom(Tail(items), DictSet(d, Head(items)[1], Head(items)[2]))

Location(areas) == DictFrom(Seats(areas, 1), <<>>)

NotFound == "Requested family not found"
NotSameArea == "Not seated in same area"

\* Mutant of ConflictsOf: the test of line 307 is missing and the area of
\* an unseated unit is read as None.
RECURSIVE ConflictsOfNoNotFound(_, _, _, _)
ConflictsOfNoNotFound(fam, fam_area, reqs, location) ==
    IF reqs = <<>> THEN <<>>
    ELSE LET other == Head(reqs)
             rest == ConflictsOfNoNotFound(fam, fam_area, Tail(reqs), location)
         IN IF DictGet(location, other, <<NoneVal, NoneVal>>)[1] # fam_area
            THEN <<<<fam, other, NotSameArea>>>> \o rest
            ELSE rest

\* Mutant of ConflictsOf: line 312 compares the whole location, area and
\* table, instead of the area.
RECURSIVE ConflictsOfSameTable(_, _, _, _)
ConflictsOfSameTable(fam, fam_area, reqs, location) ==
    IF reqs = <<>> THEN <<>>
    ELSE LET other == Head(reqs)
             rest == ConflictsOfSameTable(fam, fam_area, Tail(reqs), location)
         IN IF ~DictHas(location, other)
            THEN <<<<fam, other, NotFound>>>> \o rest
            ELSE IF DictGet(location, other, <<NoneVal, NoneVal>>)
                       # DictGet(location, fam, <<NoneVal, NoneVal>>)
                 THEN <<<<fam, other, NotSameArea>>>> \o rest
                 ELSE rest

\* Lines 306-313: the requests of one requester
RECURSIVE ConflictsOf(_, _, _, _)
ConflictsOf(fam, fam_area, reqs, location) ==
    IF reqs = <<>> THEN <<>>
    ELSE LET other == Head(reqs)
             rest == ConflictsOf(fam, fam_area, Tail(reqs), location)
         IN IF ~DictHas(location, other)
            THEN <<<<fam, other, NotFound>>>> \o rest
            ELSE IF DictGet(location, other, <<NoneVal, NoneVal>>)[1] # fam_area
                 THEN <<<<fam, other, NotSameArea>>>> \o rest
                 ELSE rest

\* Mutant of ConflictLoop: the requests of a requester that is not seated
\* are skipped.
RECURSIVE ConflictLoopSeatedOnly(_, _)
ConflictLoopSeatedOnly(items, location) ==
    IF items = <<>> THEN <<>>
    ELSE LET fam == Head(items)[1]
             fam_area == DictGet(location, fam, <<NoneVal, NoneVal>>)[1]
         IN (IF DictHas(location, fam)
             THEN ConflictsOf(fam, fam_area, Head(items)[2], location)
             ELSE <<>>)
            \o ConflictLoopSeatedOnly(Tail(items), location)

\* Lines 303-315: the loop over requests_map.items()
RECURSIVE ConflictLoop(_, _)
ConflictLoop(items, location) ==
    IF items = <<>> THEN <<>>
    ELSE LET fam == Head(items)[1]
             fam_area == DictGet(location, fam, <<NoneVal, NoneVal>>)[1]
         IN ConflictsOf(fam, fam_area, Head(items)[2], location)
            \o ConflictLoop(Tail(items), location)

generate_conflict_report(areas, requests_map) ==
    ConflictLoop(requests_map, Location(areas))

\* ------------------------------------------------------ 5. visualize_areas
\* Lines 326-335: one line per area, per table and per unit, in order.
Line(kind, a, b, c) == [kind |-> kind, a |-> a, b |-> b, c |-> c]

RECURSIVE UnitLines(_, _)
UnitLines(table, k) ==
    IF k > Len(table) THEN <<>>
    ELSE <<Line("unit", FirstName(table[k]), LastName(table[k]), Size(table[k]))>>
         \o UnitLines(table, k + 1)

RECURSIVE TableLines(_, _)
TableLines(tables, t) ==
    IF t > Len(tables) THEN <<>>
    ELSE <<Line("table", t - 1, 0, 0)>> \o UnitLines(tables[t], 1) \o TableLines(tables, t + 1)

RECURSIVE AreaLines(_, _)
AreaLines(areas, a) ==
    IF a > Len(areas) THEN <<>>
    ELSE <<Line("area", a - 1, 0, 0)>> \o TableLines(areas[a], 1) \o AreaLines(areas, a + 1)

visualize_areas(areas) == AreaLines(areas, 1)

\* ------------------------------------------ 6. create_area_aware_seating
\* Mutant of ProcessCluster: the area is decided for every unit of the
\* cluster on its own.
RECURSIVE ProcessClusterByUnit(_, _, _, _, _, _)
ProcessClusterByUnit(cluster, areas, area_used, table_size, requests_map, debug) ==
    IF cluster = <<>>
    THEN [raised |-> FALSE, area_idx |-> NoneVal, areas |-> areas, area_used |-> area_used]
    ELSE LET one == <<Head(cluster)>>
             area_idx == assign_cluster_to_area(one, areas, area_used, table_size)
             areas1 == IF area_idx = Len(areas) THEN Append(areas, <<>>) ELSE areas
             used1 == IF area_idx = Len(area_used) THEN Append(area_used, 0) ELSE area_used
             p == place_cluster_into_area(one, areas1[area_idx + 1], table_size, requests_map, debug)
         IN IF p.raised
            THEN [raised |-> TRUE, area_idx |-> area_idx, areas |-> areas1, area_used |-> area_used]
            ELSE LET r == ProcessClusterByUnit(Tail(cluster),
                              [areas1 EXCEPT ![area_idx + 1] = p.tables],
                              [used1 EXCEPT ![area_idx + 1] = @ + SumSizes(one)],
                              table_size, requests_map, debug)
                 IN [r EXCEPT !.area_idx = IF Len(cluster) = 1 THEN area_idx ELSE r.area_idx]

\* Variant of the loop iteration that adds the number of units of the cluster
\* to the used-seat counter instead of the sum of their sizes.
ProcessClusterCountUnits(cluster, areas, area_used, table_size, requests_map, debug) ==
    LET area_idx == assign_cluster_to_area(cluster, areas, area_used, table_size)
        areas1 == IF area_idx = Len(areas) THEN Append(areas, <<>>) ELSE areas
        used1 == IF area_idx = Len(area_used) THEN Append(area_used, 0) ELSE area_used
        p == place_cluster_into_area(cluster, areas1[area_idx + 1], table_size, requests_map, debug)
    IN IF p.raised
       THEN [raised |-> TRUE, area_idx |-> area_idx, areas |-> areas1, area_used |-> area_used]
       ELSE [raised |-> FALSE, area_idx |-> area_idx,
             areas |-> [areas1 EXCEPT ![area_idx + 1] = p.tables],
             area_used |-> [used1 EXCEPT ![area_idx + 1] = @ + Len(cluster)]]

\* Lines 387-406: one iteration of the loop over the clusters.  areas and
\* area_used are defaultdicts: areas[area_idx] and area_used[area_idx] +=
\* create the entry of a new area.
ProcessCluster(cluster, areas, area_used, table_size, requests_map, debug) ==
    LET area_idx == assign_cluster_to_area(cluster, areas, area_used, table_size)
        areas1 == IF area_idx = Len(areas) THEN Append(areas, <<>>) ELSE areas
        used1 == IF area_idx = Len(area_used) THEN Append(area_used, 0) ELSE area_used
        p == place_cluster_into_area(cluster, areas1[area_idx + 1], table_size, requests_map, debug)
    IN IF p.raised
       THEN [raised |-> TRUE, area_idx |-> area_idx, areas |-> areas1, area_used |-> area_used]
       ELSE [raised |-> FALSE, area_idx |-> area_idx,
             areas |-> [areas1 EXCEPT ![area_idx + 1] = p.tables],
             area_used |-> [used1 EXCEPT ![area_idx + 1] = @ + SumSizes(cluster)]]

RECURSIVE AreaLoop(_, _, _, _, _, _)
AreaLoop(clusters, areas, area_used, table_size, requests_map, debug) ==
    IF clusters = <<>> THEN [raised |-> FALSE, areas |-> areas, area_used |-> area_used]
    ELSE LET r == ProcessCluster(Head(clusters), areas, area_used, table_size, requests_map, debug)
         IN IF r.raised THEN [raised |-> TRUE, areas |-> r.areas, area_used |-> r.area_used]
            ELSE AreaLoop(Tail(clusters), r.areas, r.area_used, table_size, requests_map, debug)

\* Lines 376-380
PipelineClusters(families_sorted, requests_map, ord) ==
    SortClusters(build_clusters(families_sorted, requests_map, ord), <<>>, families_sorted)

\* Lines 360-418: the whole call; what it returns, or that it raised
create_area_aware_seating(families_sorted, requests_map, table_size, debug, ord) ==
    LET r == AreaLoop(PipelineClusters(families_sorted, requests_map, ord), <<>>, <<>>,
                      table_size, requests_map, debug)
    IN IF r.raised
       THEN [raised |-> TRUE, areas |-> <<>>, conflicts |-> <<>>, layout |-> <<>>]
       ELSE [raised |-> FALSE, areas |-> r.areas,
             conflicts |-> generate_conflict_report(r.areas, requests_map),
             layout |-> visualize_areas(r.areas)]

\* --------------------------------------------------- seating_requests.py
\* A string is the sequence of its characters.
Letters == {"a", "s"}
Capitals == {"A"}
Punctuation == {"'"}
Space == " "
Chars == Letters \cup Capitals \cup Punctuation \cup {Space}

\* All strings over S of length at most n
Strings(S, n) == UNION {[1..k -> S] : k \in 0..n}

\* str.lower()
LowerChar(c) == IF c = "A" THEN "a" ELSE c
Lower(s) == [i \in 1..Len(s) |-> LowerChar(s[i])]

\* Line 33: translate(str.maketrans("", "", string.punctuation)) deletes
\* every punctuation character and nothing else.
StripPunctuation(s) == SelectSeq(s, LAMBDA c : c \notin Punctuation)

\* Line 34: str.split(), the maximal runs of non-space characters
RECURSIVE SplitFrom(_, _, _)
SplitFrom(s, i, cur) ==
    IF i > Len(s) THEN (IF cur = <<>> THEN <<>> ELSE <<cur>>)
    ELSE IF s[i] = Space
         THEN (IF cur = <<>> THEN <<>> ELSE <<cur>>) \o SplitFrom(s, i + 1, <<>>)
         ELSE SplitFrom(s, i + 1, Append(cur, s[i]))
Split(s) == SplitFrom(s, 1, <<>>)

\* x in s for two strings
IsSubstring(x, s) == \E i \in 0..(Len(s) - Len(x)) : SubSeq(s, i + 1, i + Len(x)) = x

\* x in list for a list of strings
InList(x, l) == \E i \in 1..Len(l) : l[i] = x

\* difflib.SequenceMatcher(a=token, b=word): the blocks a[i..i+k-1] =
\* b[j..j+k-1] inside a[alo..ahi] and b[blo..bhi]; find_longest_match takes
\* the longest, the earliest in a among those, then the earliest in b.
MatchBlocks(a, alo, ahi, b, blo, bhi) ==
    {x \in (alo..ahi) \X (blo..bhi) \X (1..Len(a)) :
        /\ x[1] + x[3] - 1 <= ahi
        /\ x[2] + x[3] - 1 <= bhi
        /\ SubSeq(a, x[1], x[1] + x[3] - 1) = SubSeq(b, x[2], x[2] + x[3] - 1)}

BlockBefore(x, y) ==
    \/ x[3] > y[3]
    \/ x[3] = y[3] /\ x[1] < y[1]
    \/ x[3] = y[3] /\ x[1] = y[1] /\ x[2] <= y[2]

\* get_matching_blocks: the number of matched characters
RECURSIVE Matches(_, _, _, _, _, _)
Matches(a, alo, ahi, b, blo, bhi) ==
    LET blocks == MatchBlocks(a, alo, ahi, b, blo, bhi)
    IN IF blocks = {} THEN 0
       ELSE LET m == CHOOSE x \in blocks : \A y \in blocks : BlockBefore(x, y)
            IN m[3] + Matches(a, alo, m[1] - 1, b, blo, m[2] - 1)
                    + Matches(a, m[1] + m[3], ahi, b, m[2] + m[3], bhi)

\* fuzzy_cutoff=0.8 of line 10, in tenths
FuzzyCutoffTenths == 8

\* Line 66: get_close_matches(word, tokens, n=1, cutoff) is not empty: some
\* token x has ratio 2.0 * matches / (len(x) + len(word)) >= cutoff.
CloseMatch(word, tokens) ==
    \E i \in 1..Len(tokens) :
        20 * Matches(tokens[i], 1, Len(tokens[i]), word, 1, Len(word))
            >= FuzzyCutoffTenths * (Len(tokens[i]) + Len(word))

\* Lines 48-70: is this key of last_to_firstnames detected
Detected(last, req, tokens) ==
    LET last_lower == Lower(last)
    IN \/ IsSubstring(last_lower, req)
       \/ InList(last_lower, tokens)
       \/ CloseMatch(last_lower, tokens)

\* A dict keyed by strings: the sequence of its <<key, list>> items.  The
\* directories are defaultdict(list): a missing key reads as the empty list.
StrGet(d, k) ==
    IF \E i \in 1..Len(d) : d[i][1] = k
    THEN d[CHOOSE i \in 1..Len(d) : d[i][1] = k][2]
    ELSE <<>>
StrAppend(d, k, v) ==
    IF \E i \in 1..Len(d) : d[i][1] = k
    THEN [i \in 1..Len(d) |-> IF d[i][1] = k THEN <<k, Append(d[i][2], v)>> ELSE d[i]]
    ELSE Append(d, <<k, <<v>>>>)

\* family.py lines 129-135 and 137-143
RECURSIVE last_to_firstnames(_)
last_to_firstnames(families) ==
    IF families = <<>> THEN <<>>
    ELSE LET f == families[Len(families)]
         IN StrAppend(last_to_firstnames(SubSeq(families, 1, Len(families) - 1)),
                      LastName(f), FirstName(f))

\* Mutant of last_to_family: the key is the lower-cased last name.
RECURSIVE last_to_familyLower(_)
last_to_familyLower(families) ==
    IF families = <<>> THEN <<>>
    ELSE LET f == families[Len(families)]
         IN StrAppend(last_to_familyLower(SubSeq(families, 1, Len(families) - 1)),
                      Lower(LastName(f)), f)

RECURSIVE last_to_family(_)
last_to_family(families) ==
    IF families = <<>> THEN <<>>
    ELSE LET f == families[Len(families)]
         IN StrAppend(last_to_family(SubSeq(families, 1, Len(families) - 1)), LastName(f), f)

\* Lines 104-111: the first family whose first name, lower-cased, is first
FirstWithName(families, first) ==
    LET hits == {i \in 1..Len(families) : Lower(FirstName(families[i])) = first}
    IN IF hits = {} THEN <<>>
       ELSE <<families[CHOOSE i \in hits : \A j \in hits : i <= j]>>

\* Mutant of Contribution: with several first names found, all the
\* families of the last name are appended.
ContributionAll(last, tokens, l2first, l2fam) ==
    LET families == StrGet(l2fam, last)
        found_firsts == SelectSeq(StrGet(l2first, last), LAMBDA first : InList(Lower(first), tokens))
    IN IF Len(families) = 1 THEN <<families[1]>>
       ELSE IF Len(found_firsts) = 1 THEN FirstWithName(families, Lower(found_firsts[1]))
       ELSE families

\* Lines 77-123: what one detected last name appends to matched_families
Contribution(last, tokens, l2first, l2fam) ==
    LET families == StrGet(l2fam, last)
        found_firsts == SelectSeq(StrGet(l2first, last), LAMBDA first : InList(Lower(first), tokens))
    IN IF Len(families) = 1 THEN <<families[1]>>
       ELSE IF Len(found_firsts) = 1 THEN FirstWithName(families, Lower(found_firsts[1]))
       ELSE IF Len(found_firsts) > 1
            THEN SelectSeq(families, LAMBDA fam : InList(FirstName(fam), found_firsts))
            ELSE families

\* Mutant of Dedup: the list is returned as it is.
DedupNone(matched, result) == result \o matched

\* Lines 127-133: seen / result
RECURSIVE Dedup(_, _)
Dedup(matched, result) ==
    IF matched = <<>> THEN result
    ELSE Dedup(Tail(matched),
               IF InSeq(Head(matched), result) THEN result ELSE Append(result, Head(matched)))

RECURSIVE MatchAll(_, _, _, _)
MatchAll(order, tokens, l2first, l2fam) ==
    IF order = <<>> THEN <<>>
    ELSE Contribution(Head(order), tokens, l2first, l2fam)
         \o MatchAll(Tail(order), tokens, l2first, l2fam)

\* The orders a set of at most three strings can be iterated in
Orders(S) ==
    {o \in UNION {[1..k -> S] : k \in {Cardinality(S)}} :
        \A i, j \in 1..Len(o) : o[i] = o[j] => i = j}

\* Lines 30-46: the normalized request, its tokens, the detected last names
Normalized(request_string) == StripPunctuation(Lower(request_string))
DetectedLastNames(request_string, l2first) ==
    {l2first[i][1] : i \in {j \in 1..Len(l2first) :
        Detected(l2first[j][1], Normalized(request_string), Split(Normalized(request_string)))}}

\* The whole function; order is the order the set detected_last_names is
\* iterated in at line 76.
extract_families_from_request(request_string, l2first, l2fam, order) ==
    LET tokens == Split(Normalized(request_string))
        matched == MatchAll(order, tokens, l2first, l2fam)
    IN [detected |-> order, matched |-> matched, result |-> Dedup(matched, <<>>)]

\* =================================================================== state
VARIABLES
    families,      \* families_sorted, the input list
    requests_map,  \* the input dict Family -> list of Family
    table_size,    \* the input capacity
    debug,         \* the input flag
    pc,            \* position in create_area_aware_seating
    clusters,      \* the sorted cluster list
    done_clusters, \* number of clusters the loop has processed
    last_area,     \* area_idx of the cluster processed last
    areas,         \* areas: area index -> list of tables
    area_used,     \* area_used: area index -> used seats
    conflicts,     \* the returned conflict list
    layout,        \* the returned layout text
    second,        \* what a second call on the same input returned
    call,          \* the arguments of a direct call of one function
    ret            \* what that call returned

pvars == <<families, requests_map, table_size, debug, pc, clusters, done_clusters,
           last_area, areas, area_used, conflicts, layout, second>>

vars == <<pvars, call, ret>>

NoCall == [fn |-> "none"]
NoRet == [fn |-> "none"]

NoRun == [raised |-> FALSE, areas |-> <<>>, conflicts |-> <<>>, layout |-> <<"none">>]

\* Lists of at most n distinct emails
RECURSIVE EmailLists(_)
EmailLists(n) ==
    IF n = 0 THEN {<<>>}
    ELSE LET shorter == EmailLists(n - 1)
         IN shorter \cup {Append(l, e) : l \in shorter, e \in Emails}

ReqLists == {l \in EmailLists(MaxReq) : \A i, j \in 1..Len(l) : l[i] = l[j] => i = j}

\* The dict with the keys of keyset in ascending order
RECURSIVE MakeDict(_, _, _, _)
MakeDict(e, keyset, val, sz) ==
    IF e > NumUnits THEN <<>>
    ELSE (IF e \in keyset
          THEN <<<<Fam(e, sz[e]), [i \in 1..Len(val[e]) |-> Fam(val[e][i], sz[val[e][i]])]>>>>
          ELSE <<>>) \o MakeDict(e + 1, keyset, val, sz)

\* The input: the units 1..n in this order, each with a size; a request map
\* over any keys, with targets inside or outside the list; a capacity.
Init ==
    /\ \E n \in 0..NumUnits, sz \in [Emails -> 1..MaxSize], keyset \in SUBSET Emails :
         \E val \in [keyset -> ReqLists] :
            /\ families = [i \in 1..n |-> Fam(i, sz[i])]
            /\ requests_map = MakeDict(1, keyset, val, sz)
    /\ table_size \in 1..MaxCap
    /\ debug \in BOOLEAN
    /\ pc = "start"
    /\ clusters = <<>>
    /\ done_clusters = 0
    /\ last_area = NoneVal
    /\ areas = <<>>
    /\ area_used = <<>>
    /\ conflicts = <<>>
    /\ layout = <<>>
    /\ second = NoRun
    /\ call = NoCall
    /\ ret = NoRet

\* Lines 376-385
BuildClusters ==
    /\ pc = "start"
    /\ \E ord \in Perms : clusters' = PipelineClusters(families, requests_map, ord)
    /\ pc' = "loop"
    /\ UNCHANGED <<families, requests_map, table_size, debug, done_clusters, last_area,
                   areas, area_used, conflicts, layout, second, call, ret>>

\* Lines 387-406, one cluster
PlaceNextCluster ==
    /\ pc = "loop"
    /\ done_clusters < Len(clusters)
    /\ LET r == ProcessCluster(clusters[done_clusters + 1], areas, area_used,
                               table_size, requests_map, debug)
       IN /\ areas' = r.areas
          /\ area_used' = r.area_used
          /\ last_area' = r.area_idx
          /\ pc' = IF r.raised THEN "raised" ELSE "loop"
          /\ done_clusters' = IF r.raised THEN done_clusters ELSE done_clusters + 1
    /\ UNCHANGED <<families, requests_map, table_size, debug, clusters, conflicts, layout, second,
                   call, ret>>

\* Lines 408-418
Report ==
    /\ pc = "loop"
    /\ done_clusters = Len(clusters)
    /\ conflicts' = generate_conflict_report(areas, requests_map)
    /\ layout' = visualize_areas(areas)
    /\ pc' = "done"
    /\ UNCHANGED <<families, requests_map, table_size, debug, clusters, done_clusters,
                   last_area, areas, area_used, second, call, ret>>

\* A second call of the pipeline on the same input, in another interpreter run
RunAgain ==
    /\ pc = "done"
    /\ second = NoRun
    /\ \E ord \in Perms :
         second' = create_area_aware_seating(families, requests_map, table_size, debug, ord)
    /\ UNCHANGED <<families, requests_map, table_size, debug, pc, clusters, done_clusters,
                   last_area, areas, area_used, conflicts, layout, call, ret>>

Next == BuildClusters \/ PlaceNextCluster \/ Report \/ RunAgain

Spec == Init /\ [][Next]_vars

TypeOK ==
    /\ pc \in {"start", "loop", "done", "raised"}
    /\ done_clusters \in 0..Len(clusters)
    /\ Len(areas) >= Len(area_used)

\* ================================= direct calls of the single functions
\* No pipeline call is in progress.
PipelineIdle ==
    /\ families = <<>>
    /\ requests_map = <<>>
    /\ table_size = 1
    /\ debug = FALSE
    /\ pc = "idle"
    /\ clusters = <<>>
    /\ done_clusters = 0
    /\ last_area = NoneVal
    /\ areas = <<>>
    /\ area_used = <<>>
    /\ conflicts = <<>>
    /\ layout = <<>>
    /\ second = NoRun

\* ---- assign_cluster_to_area(cluster, areas, area_used, table_size)
\* At most MaxAreas existing areas, each of at most MaxAreas tables
MaxAreas == 2

\* What the call reads of one existing area: its number of tables and its
\* used seats (a seated oversized unit can push used past the capacity).
AreaStates(ts) ==
    {x \in (1..MaxAreas) \X (0..(MaxAreas * ts + 1)) : x[2] <= x[1] * ts + 1}

RECURSIVE AreaStateLists(_, _)
AreaStateLists(n, ts) ==
    IF n = 0 THEN {<<>>}
    ELSE LET shorter == AreaStateLists(n - 1, ts)
         IN shorter \cup {Append(l, a) : l \in {x \in shorter : Len(x) = n - 1},
                                         a \in AreaStates(ts)}

InitAssign ==
    /\ PipelineIdle
    /\ \E ts \in 1..MaxCap, cs \in 1..(NumUnits * MaxSize) :
         \E l \in AreaStateLists(MaxAreas, ts) :
            call = [fn |-> "assign", cluster_size |-> cs,
                    ntables |-> [i \in 1..Len(l) |-> l[i][1]],
                    area_used |-> [i \in 1..Len(l) |-> l[i][2]],
                    table_size |-> ts]
    /\ ret = NoRet

CallAssign ==
    /\ call.fn = "assign"
    /\ ret = NoRet
    /\ ret' = [fn |-> "assign",
               area_idx |-> AssignArea(call.cluster_size, call.ntables, call.area_used,
                                       call.table_size)]
    /\ UNCHANGED <<pvars, call>>

SpecAssign == InitAssign /\ [][CallAssign]_vars

\* ---- split_oversized_families(cluster, table_size, requests_map)
MaxSplit == 2

\* The cluster: the units 1..n in this order, each with a size.  The request
\* map: entries for any of the units 1..MaxSplit, with targets among them.
SplitLists == {l \in ReqLists : \A i \in 1..Len(l) : l[i] <= MaxSplit}

InitSplit ==
    /\ PipelineIdle
    /\ \E n \in 0..MaxSplit, sz \in [1..MaxSplit -> 1..(MaxSize + 1)],
          keyset \in SUBSET (1..MaxSplit), ts \in 1..MaxCap :
         \E val \in [keyset -> SplitLists] :
            call = [fn |-> "split",
                    cluster |-> [i \in 1..n |-> Fam(i, sz[i])],
                    table_size |-> ts,
                    requests_map |-> MakeDict(1, keyset, val, sz)]
    /\ ret = NoRet

CallSplit ==
    /\ call.fn = "split"
    /\ ret = NoRet
    /\ LET r == split_oversized_families(call.cluster, call.table_size, call.requests_map)
       IN ret' = [fn |-> "split", raised |-> r.raised, cluster |-> r.cluster,
                  requests_map |-> r.requests_map]
    /\ UNCHANGED <<pvars, call>>

SpecSplit == InitSplit /\ [][CallSplit]_vars

\* ---- Family(...), __eq__, __hash__ and a set of two units
\* Part indices 0..MaxPart
MaxPart == 1

\* hash(self.email)
FamHash(f) == f.email

\* make_family(email, part=p) of test_family.py and lines 264-272 of
\* seating_chart.py pass part=p to Family(...); p = NoneVal is a call that
\* passes no part (helpers_for_testing.make_family).
MakeFamily(e, p) ==
    IF p = NoneVal
    THEN FamilyInit([email |-> e, phone |-> 0, address |-> 0, requests |-> 0,
                     submission |-> 0, guests |-> 1])
    ELSE FamilyInit([email |-> e, phone |-> 0, address |-> 0, requests |-> 0,
                     submission |-> 0, guests |-> 1, part |-> p])

InitFamily ==
    /\ PipelineIdle
    /\ \E e1, e2 \in Emails, p1, p2 \in {NoneVal} \cup (0..MaxPart) :
          call = [fn |-> "family", e1 |-> e1, p1 |-> p1, e2 |-> e2, p2 |-> p2]
    /\ ret = NoRet

\* f1 = Family(...); f2 = Family(...); f1 == f2; hash(f1) == hash(f2);
\* len({f1, f2})
CallFamily ==
    /\ call.fn = "family"
    /\ ret = NoRet
    /\ LET m1 == MakeFamily(call.e1, call.p1)
           m2 == MakeFamily(call.e2, call.p2)
       IN ret' = IF m1.raised \/ m2.raised
                 THEN [fn |-> "family", raised |-> TRUE, eq |-> FALSE, hash_eq |-> FALSE,
                       set_len |-> 0]
                 ELSE [fn |-> "family", raised |-> FALSE, eq |-> FamEq(m1.fam, m2.fam),
                       hash_eq |-> (FamHash(m1.fam) = FamHash(m2.fam)),
                       set_len |-> Cardinality(SetAdd(SetAdd({}, m1.fam), m2.fam))]
    /\ UNCHANGED <<pvars, call>>

SpecFamily == InitFamily /\ [][CallFamily]_vars

\* ---- place_cluster_into_area(cluster, area_tables, table_size, requests_map, debug)
\* At most MaxTables tables in the area before the call
MaxTables == 2

EmailSeq == [i \in 1..NumUnits |-> i]

\* The units that where puts at k, in ascending order of email
UnitsAt(where, sz, k) ==
    LET s == SelectSeq(EmailSeq, LAMBDA e : where[e] = k)
    IN [i \in 1..Len(s) |-> Fam(s[i], sz[s[i]])]

\* The area holds nt tables, none empty, of units of earlier clusters; the
\* cluster holds other units; the request map has entries for units of the
\* cluster (the call reads no other entry).
InitPlace ==
    /\ PipelineIdle
    /\ \E nt \in 0..MaxTables, sz \in [Emails -> 1..MaxSize], ts \in 1..MaxCap, dbg \in BOOLEAN :
         \E where \in [Emails -> 0..(nt + 1)] :
            /\ \A t \in 1..nt : \E e \in Emails : where[e] = t
            /\ \E keyset \in SUBSET {e \in Emails : where[e] = 0} :
                 \E val \in [keyset -> ReqLists] :
                    call = [fn |-> "place",
                            cluster |-> UnitsAt(where, sz, 0),
                            area_tables |-> [t \in 1..nt |-> UnitsAt(where, sz, t)],
                            table_size |-> ts,
                            requests_map |-> MakeDict(1, keyset, val, sz),
                            debug |-> dbg]
    /\ ret = NoRet

\* Lines 181-226, one unit of the cluster: ret.placed units are placed,
\* ret.tables is area_tables now and ret.prev_tables what it was before the
\* last unit was placed at table ret.chosen.
PlaceUnit ==
    /\ call.fn = "place"
    /\ \/ ret = NoRet /\ call.cluster # <<>>
       \/ ret.fn = "place" /\ ~ret.raised /\ ret.placed < Len(call.cluster)
    /\ LET placed == IF ret = NoRet THEN 0 ELSE ret.placed
           tables == IF ret = NoRet THEN call.area_tables ELSE ret.tables
           table_used == IF ret = NoRet
                         THEN [i \in 1..Len(tables) |-> SumSizes(tables[i])]
                         ELSE ret.table_used
           fam == call.cluster[placed + 1]
           t == ChooseTable(fam, tables, table_used, call.table_size, call.requests_map)
       IN ret' = IF call.debug /\ ~HasAttr("part")
                 THEN [fn |-> "place", raised |-> TRUE, placed |-> placed, tables |-> tables,
                       table_used |-> table_used, prev_tables |-> tables, chosen |-> NoneVal]
                 ELSE [fn |-> "place", raised |-> FALSE, placed |-> placed + 1,
                       tables |-> SeatAt(tables, t, fam),
                       table_used |-> UsedAt(table_used, t, fam),
                       prev_tables |-> tables, chosen |-> t]
    /\ UNCHANGED <<pvars, call>>

SpecPlace == InitPlace /\ [][PlaceUnit]_vars

\* ---- generate_conflict_report(areas, requests_map)
\* At most MaxKeys entries in the request map, each a list of at most
\* MaxAsked units
MaxKeys == 2
MaxAsked == 2

DistinctLists(n) == {l \in EmailLists(n) : \A i, j \in 1..Len(l) : l[i] = l[j] => i = j}

\* The layout: MaxAreas areas of MaxTables tables; where[e] = 0 leaves unit
\* e unseated, where[e] = (a - 1) * MaxTables + t seats it at table t of
\* area a.  No unit is seated twice.
LayoutOf(where) ==
    [a \in 1..MaxAreas |->
        [t \in 1..MaxTables |->
            LET s == SelectSeq(EmailSeq, LAMBDA e : where[e] = (a - 1) * MaxTables + t)
            IN [i \in 1..Len(s) |-> Fam(s[i], 1)]]]

\* The request map: the keys in any order, targets seated or not.
InitReport ==
    /\ PipelineIdle
    /\ \E where \in [Emails -> 0..(MaxAreas * MaxTables)], keys \in DistinctLists(MaxKeys) :
         \E val \in [1..Len(keys) -> DistinctLists(MaxAsked)] :
            call = [fn |-> "report",
                    areas |-> LayoutOf(where),
                    requests_map |->
                        [k \in 1..Len(keys) |->
                            <<Fam(keys[k], 1),
                              [i \in 1..Len(val[k]) |-> Fam(val[k][i], 1)]>>]]
    /\ ret = NoRet

CallReport ==
    /\ call.fn = "report"
    /\ ret = NoRet
    /\ ret' = [fn |-> "report",
               conflicts |-> generate_conflict_report(call.areas, call.requests_map)]
    /\ UNCHANGED <<pvars, call>>

SpecReport == InitReport /\ [][CallReport]_vars

\* ---- build_clusters(families, requests_map), called twice
\* The input: the units 1..n in this order; a request map over any keys,
\* with targets inside or outside the list.
InitBuild ==
    /\ PipelineIdle
    /\ \E n \in 0..NumUnits, keyset \in SUBSET Emails :
         \E val \in [keyset -> ReqLists] :
            call = [fn |-> "build",
                    families |-> [i \in 1..n |-> Fam(i, 1)],
                    requests_map |-> MakeDict(1, keyset, val, [e \in Emails |-> 1])]
    /\ ret = NoRet

\* The first call; ord is the order this interpreter run iterates sets in
CallBuild ==
    /\ call.fn = "build"
    /\ ret = NoRet
    /\ \E ord \in Perms :
         ret' = [fn |-> "build", calls |-> 1,
                 first |-> build_clusters(call.families, call.requests_map, ord),
                 second |-> <<>>]
    /\ UNCHANGED <<pvars, call>>

\* The same call in another interpreter run
CallBuildAgain ==
    /\ ret.fn = "build"
    /\ ret.calls = 1
    /\ \E ord \in Perms :
         ret' = [ret EXCEPT !.calls = 2,
                            !.second = build_clusters(call.families, call.requests_map, ord)]
    /\ UNCHANGED <<pvars, call>>

SpecBuild == InitBuild /\ [][CallBuild \/ CallBuildAgain]_vars

\* ---- extract_families_from_request(request_string, last_to_firstnames,
\* ----                               last_to_families)
\* Request texts of at most MaxText characters against one unit with a last
\* name of at most MaxName letters; texts of at most MaxRequest characters
\* against at most MaxFam units with names of one letter.
MaxText == 4
MaxName == 3
MaxRequest == 3
MaxFam == 3

\* Names: letters, the first one possibly a capital
Names(n) ==
    {s \in Strings(Letters \cup Capitals, n) :
        Len(s) >= 1 /\ \A i \in 2..Len(s) : s[i] \in Letters}

Unit(e, first, last) == [email |-> e, guests |-> 1, first |-> first, last |-> last]

\* Lists of at most n units with the emails 1, 2, ...
RECURSIVE UnitLists(_)
UnitLists(n) ==
    IF n = 0 THEN {<<>>}
    ELSE LET shorter == UnitLists(n - 1)
         IN shorter \cup {Append(l, Unit(n, first, last)) :
                             l \in {x \in shorter : Len(x) = n - 1},
                             first \in Names(1), last \in Strings(Letters, 1) \ {<<>>}}

\* A list of two units of one email: one family entered twice
SameEmail(units) == IF Len(units) = 2 THEN [units EXCEPT ![2].email = 1] ELSE units

\* The name directories are built from the unit list, as cli.py lines 68-69 do.
InitExtract ==
    /\ PipelineIdle
    /\ \/ \E text \in Strings(Chars, MaxText), last \in Names(MaxName) :
             call = [fn |-> "extract", request_string |-> text,
                     families |-> <<Unit(1, <<"A">>, last)>>]
       \/ \E text \in Strings(Chars, MaxRequest), units \in UnitLists(MaxFam), twice \in BOOLEAN :
             call = [fn |-> "extract", request_string |-> text,
                     families |-> IF twice THEN SameEmail(units) ELSE units]
    /\ ret = NoRet

CallExtract ==
    /\ call.fn = "extract"
    /\ ret = NoRet
    /\ LET l2first == last_to_firstnames(call.families)
           l2fam == last_to_family(call.families)
       IN \E order \in Orders(DetectedLastNames(call.request_string, l2first)) :
             LET r == extract_families_from_request(call.request_string, l2first, l2fam, order)
             IN ret' = [fn |-> "extract", detected |-> r.detected, matched |-> r.matched,
                        result |-> r.result]
    /\ UNCHANGED <<pvars, call>>

SpecExtract == InitExtract /\ [][CallExtract]_vars

\* ================================================================= claims
\* ---- helpers of the claims: the layout as a list of seated units
SeatedUnits == [i \in 1..Len(Seats(areas, 1)) |-> Seats(areas, 1)[i][1]]

RECURSIVE Flatten(_)
Flatten(ss) == IF ss = <<>> THEN <<>> ELSE Head(ss) \o Flatten(Tail(ss))

Count(f, s) == Cardinality({i \in 1..Len(s) : s[i] = f})
Range(s) == {s[i] : i \in 1..Len(s)}

\* The areas (0-based) in which a unit with this email is seated
AreasOf(e) ==
    {a - 1 : a \in {x \in 1..Len(areas) :
        \E t \in 1..Len(areas[x]) : \E k \in 1..Len(areas[x][t]) : areas[x][t][k].email = e}}

AllRequestsEmpty == \A i \in 1..Len(requests_map) : requests_map[i][2] = <<>>

\* C1: when the pipeline has finished, the sizes of the units of every table
\* of every area sum to at most the table capacity.
C1_TablesWithinCapacity ==
    pc = "done" =>
        \A a \in 1..Len(areas) : \A t \in 1..Len(areas[a]) :
            SumSizes(areas[a][t]) <= table_size

\* C2: the units seated so far are exactly the units of the clusters
\* processed so far, each seated once: no unit twice, none left out.
C2_SeatedEqualsClustered ==
    pc \in {"loop", "done"} =>
        LET placed == Flatten(SubSeq(clusters, 1, done_clusters))
        IN /\ \A f \in Range(placed) \cup Range(SeatedUnits) :
                Count(f, SeatedUnits) = Count(f, placed)
           /\ \A f \in Range(placed) : Count(f, SeatedUnits) = 1

C2_Witness ==
    /\ pc = "done"
    /\ Len(clusters) >= 2
    /\ Len(SeatedUnits) = 3
    /\ \E a \in 1..Len(areas) : Len(areas[a]) >= 2

\* C3: in the returned layout all units of one cluster sit in one area.
C3_ClusterInOneArea ==
    pc = "done" =>
        \A c \in 1..Len(clusters) :
            \E a \in 0..(Len(areas) - 1) :
                \A k \in 1..Len(clusters[c]) : AreasOf(clusters[c][k].email) = {a}

C3_Witness ==
    /\ pc = "done"
    /\ Len(areas) >= 2
    /\ \E c \in 1..Len(clusters) : Len(clusters[c]) >= 2

\* C4: with a request map that has no entries, or only empty lists, the
\* clusters are the singletons of the input units in input order, and the
\* pipeline returns no conflict.
C4_NoRequestsSingletons ==
    (AllRequestsEmpty /\ pc \in {"loop", "done", "raised"}) =>
        /\ Len(clusters) = Len(families)
        /\ \A i \in 1..Len(families) : clusters[i] = <<families[i]>>
        /\ pc = "done" => conflicts = <<>>

C4_Witness ==
    /\ pc = "done"
    /\ AllRequestsEmpty
    /\ Len(requests_map) >= 2
    /\ Len(families) = NumUnits

\* C5: a second run of the pipeline on the same input returns the same
\* areas, conflicts and layout as the first.
C5_SecondRunIdentical ==
    (pc = "done" /\ second # NoRun) =>
        second = [raised |-> FALSE, areas |-> areas, conflicts |-> conflicts,
                  layout |-> layout]

\* ---- helpers of the claims on assign_cluster_to_area
Remaining(i) == call.ntables[i] * call.table_size - call.area_used[i]
Fitting == {i \in 1..Len(call.ntables) : Remaining(i) >= call.cluster_size}
Returned == ret.fn = "assign"

C8_NoTableAddedToExistingArea ==
    [][\A a \in 1..Len(areas) :
          Len(areas[a]) > 0 => Len(areas'[a]) = Len(areas[a])]_vars

\* ---- helpers of the claims on split_oversized_families
SplitReturned == ret.fn = "split"

\* The sizes of the parts of a unit of size s at capacity c
RECURSIVE PartSizes(_, _)
PartSizes(s, c) == IF s <= c THEN <<s>> ELSE <<c>> \o PartSizes(s - c, c)

RECURSIVE ExpectedSizes(_, _)
ExpectedSizes(cluster, c) ==
    IF cluster = <<>> THEN <<>>
    ELSE PartSizes(Size(Head(cluster)), c) \o ExpectedSizes(Tail(cluster), c)

Oversized == {i \in 1..Len(call.cluster) : Size(call.cluster[i]) > call.table_size}

\* C9: the call returns the cluster with every oversized unit replaced by
\* ceil(s/c) parts of sizes c, ..., c and the rest, in order.
C9_SplitIntoParts ==
    SplitReturned =>
        /\ ~ret.raised
        /\ [i \in 1..Len(ret.cluster) |-> Size(ret.cluster[i])]
              = ExpectedSizes(call.cluster, call.table_size)
        /\ \A i \in Oversized :
              Len(PartSizes(Size(call.cluster[i]), call.table_size))
                 = Ceil(Size(call.cluster[i]), call.table_size)

\* C10: after a split the request map holds one entry per part, each the
\* full request list of the split unit, and the other entries are unchanged.
C10_PartsInheritRequests ==
    (SplitReturned /\ Oversized # {}) =>
        /\ ~ret.raised
        /\ \A i \in Oversized :
              /\ Cardinality({j \in 1..Len(ret.requests_map) :
                                 FamEq(ret.requests_map[j][1], call.cluster[i])})
                    >= Ceil(Size(call.cluster[i]), call.table_size)
              /\ \A j \in 1..Len(ret.requests_map) :
                    FamEq(ret.requests_map[j][1], call.cluster[i]) =>
                        ret.requests_map[j][2] = DictGet(call.requests_map, call.cluster[i], <<>>)
        /\ \A j \in 1..Len(call.requests_map) :
              (\A i \in Oversized : ~FamEq(call.requests_map[j][1], call.cluster[i])) =>
                  \E k \in 1..Len(ret.requests_map) : ret.requests_map[k] = call.requests_map[j]

\* C11: two units built with the same email and the same part index are
\* equal and hash equally; with the same email and different part indices
\* they are unequal, and a set of the two holds both.
C11_IdentityIsEmailAndPart ==
    (ret.fn = "family" /\ call.p1 # NoneVal /\ call.p2 # NoneVal) =>
        /\ ~ret.raised
        /\ ret.eq <=> (call.e1 = call.e2 /\ call.p1 = call.p2)
        /\ ret.eq => ret.hash_eq
        /\ ret.set_len = IF call.e1 = call.e2 /\ call.p1 = call.p2 THEN 1 ELSE 2

\* ---- helpers of the claims on place_cluster_into_area: the unit placed
\* last, and the tables as they were before it was placed
UnitPlaced == ret.fn = "place" /\ ~ret.raised
PlacedUnit == call.cluster[ret.placed]
PrevRemaining(i) == call.table_size - SumSizes(ret.prev_tables[i])
Eligible == {i \in 1..Len(ret.prev_tables) : PrevRemaining(i) >= Size(PlacedUnit)}
RequestsOfPlaced ==
    LET hits == {j \in 1..Len(call.requests_map) :
                    call.requests_map[j][1].email = PlacedUnit.email}
    IN IF hits = {} THEN <<>> ELSE call.requests_map[CHOOSE j \in hits : TRUE][2]
ReqScore(i) ==
    Cardinality({k \in 1..Len(ret.prev_tables[i]) :
        \E j \in 1..Len(RequestsOfPlaced) :
            RequestsOfPlaced[j].email = ret.prev_tables[i][k].email})

\* C12: when some table has remaining capacity for the unit, the unit is
\* appended to a table with remaining capacity that holds the largest
\* number of units of its request list, the lowest index among equals.
C12_BestScoreLowestIndex ==
    (UnitPlaced /\ Eligible # {}) =>
        /\ ret.chosen + 1 \in Eligible
        /\ \A i \in Eligible :
              /\ ReqScore(i) <= ReqScore(ret.chosen + 1)
              /\ ReqScore(i) = ReqScore(ret.chosen + 1) => ret.chosen + 1 <= i
        /\ ret.tables = [ret.prev_tables EXCEPT ![ret.chosen + 1] = Append(@, PlacedUnit)]

C12_Witness ==
    /\ UnitPlaced
    /\ Cardinality(Eligible) >= 2
    /\ ret.chosen = 1
    /\ ReqScore(1) < ReqScore(2)

\* C13: a table is appended for the unit if and only if no table had
\* remaining capacity for it; the new table holds that unit alone, and the
\* other tables are as before.
C13_NewTableIffNoRoom ==
    UnitPlaced =>
        /\ Len(ret.tables) > Len(ret.prev_tables) <=> Eligible = {}
        /\ Eligible = {} => ret.tables = Append(ret.prev_tables, <<PlacedUnit>>)
        /\ Eligible # {} => Len(ret.tables) = Len(ret.prev_tables)

C13_Witness ==
    /\ UnitPlaced
    /\ ret.placed = 2
    /\ Len(ret.prev_tables) = 2
    /\ Eligible = {}
    /\ \E i \in 1..2 : PrevRemaining(i) > 0
    /\ ret.tables = Append(ret.prev_tables, <<PlacedUnit>>)

\* ---- helpers of the claims on generate_conflict_report
Reported == ret.fn = "report"

\* The areas and the <<area, table>> places where a unit sits in the layout
AreasWith(f) ==
    {a \in 1..Len(call.areas) :
        \E t \in 1..Len(call.areas[a]) : \E k \in 1..Len(call.areas[a][t]) :
            call.areas[a][t][k].email = f.email}
PlacesOf(f) ==
    {p \in (1..MaxAreas) \X (1..MaxTables) :
        \E k \in 1..Len(call.areas[p[1]][p[2]]) : call.areas[p[1]][p[2]][k].email = f.email}

\* The triples one request list has to produce, in list order
RECURSIVE ExpectedOf(_, _)
ExpectedOf(f, reqs) ==
    IF reqs = <<>> THEN <<>>
    ELSE (IF AreasWith(Head(reqs)) = {} THEN <<<<f, Head(reqs), NotFound>>>>
          ELSE IF AreasWith(Head(reqs)) # AreasWith(f) THEN <<<<f, Head(reqs), NotSameArea>>>>
          ELSE <<>>) \o ExpectedOf(f, Tail(reqs))

RECURSIVE ExpectedReport(_)
ExpectedReport(items) ==
    IF items = <<>> THEN <<>>
    ELSE ExpectedOf(Head(items)[1], Head(items)[2]) \o ExpectedReport(Tail(items))

\* C14: the report is, in the order of the entries of the request map and
\* then of each list, one triple per pair whose requested unit is seated
\* nowhere (reason not found) or sits in another area than the requester
\* (reason not in same area), and nothing for a pair of one area.
C14_ReportIsUnmetPairsInOrder ==
    Reported => ret.conflicts = ExpectedReport(call.requests_map)

C14_Witness ==
    /\ Reported
    /\ Len(ret.conflicts) >= 2
    /\ \E i, j \in 1..Len(ret.conflicts) :
          /\ i < j
          /\ ret.conflicts[i][3] = NotSameArea
          /\ ret.conflicts[j][3] = NotFound
          /\ ret.conflicts[i][1].email > ret.conflicts[j][1].email
    /\ \E k \in 1..Len(call.requests_map) :
          /\ Len(call.requests_map[k][2]) = 2
          /\ AreasWith(call.requests_map[k][2][1]) = AreasWith(call.requests_map[k][1])
          /\ AreasWith(call.requests_map[k][1]) # {}

\* C15: a pair whose two units sit in one area at different tables is not
\* in the report.
C15_SameAreaNotReported ==
    Reported =>
        \A k \in 1..Len(call.requests_map) : \A j \in 1..Len(call.requests_map[k][2]) :
            LET f == call.requests_map[k][1]
                o == call.requests_map[k][2][j]
            IN (\E p \in PlacesOf(f), q \in PlacesOf(o) : p[1] = q[1] /\ p[2] # q[2]) =>
                  \A i \in 1..Len(ret.conflicts) :
                     ~(ret.conflicts[i][1] = f /\ ret.conflicts[i][2] = o)

C15_Witness ==
    /\ Reported
    /\ ret.conflicts # <<>>
    /\ \E k \in 1..Len(call.requests_map) : \E j \in 1..Len(call.requests_map[k][2]) :
          \E p \in PlacesOf(call.requests_map[k][1]), q \in PlacesOf(call.requests_map[k][2][j]) :
             p[1] = q[1] /\ p[2] # q[2]

\* ---- helpers of the claims on build_clusters
Built == ret.fn = "build"
InputEmails == {call.families[i].email : i \in 1..Len(call.families)}

\* a requests b in the request map
Requests(a, b) ==
    \E k \in 1..Len(call.requests_map) :
        /\ call.requests_map[k][1].email = a
        /\ \E j \in 1..Len(call.requests_map[k][2]) : call.requests_map[k][2][j].email = b

\* The input units a chain of requests among input units links to those of S
RECURSIVE Component(_)
Component(S) ==
    LET T == S \cup {b \in InputEmails : \E a \in S : Requests(a, b) \/ Requests(b, a)}
    IN IF T = S THEN S ELSE Component(T)

ClusterEmails(c) == {ret.first[c][k].email : k \in 1..Len(ret.first[c])}

\* C16: the clusters are the connected components of the request graph
\* over the input units: every input unit is in exactly one cluster, once,
\* a cluster holds input units only, and two input units share a cluster
\* if and only if a chain of requests among input units links them.
C16_ClustersAreComponents ==
    Built =>
        /\ \A e \in InputEmails :
              Cardinality({c \in 1..Len(ret.first) : e \in ClusterEmails(c)}) = 1
        /\ \A c \in 1..Len(ret.first) :
              /\ ClusterEmails(c) \subseteq InputEmails
              /\ Cardinality(ClusterEmails(c)) = Len(ret.first[c])
              /\ \A a \in ClusterEmails(c) : ClusterEmails(c) = Component({a})

\* C17: a second call with the same unit list and request map returns the
\* same clusters in the same order with the same member order.
C17_SecondCallIdentical ==
    (Built /\ ret.calls = 2) => ret.second = ret.first

\* ---- helpers of the claims on extract_families_from_request
Extracted == ret.fn = "extract"

\* The words of the request text, lower-cased, before and after the
\* punctuation is removed
RawWords == Split(Lower(call.request_string))
Words == [i \in 1..Len(RawWords) |-> StripPunctuation(RawWords[i])]

\* The last name occurs inside a longer word of the text, and no word is
\* the name, its possessive, or similar to it up to the fuzzy cutoff
OnlyInsideLongerWord(name) ==
    /\ \E i \in 1..Len(Words) : IsSubstring(name, Words[i]) /\ Len(Words[i]) > Len(name)
    /\ \A i \in 1..Len(RawWords) :
          /\ Words[i] # name
          /\ RawWords[i] # name \o <<"'", "s">>
          /\ 5 * Matches(Words[i], 1, Len(Words[i]), name, 1, Len(name))
                < 2 * (Len(Words[i]) + Len(name))

\* C18: a unit whose last name occurs in the text only inside a longer
\* unrelated word is not returned.
C18_NoSubstringDetection ==
    Extracted =>
        \A u \in 1..Len(call.families) :
            OnlyInsideLongerWord(Lower(call.families[u].last)) =>
                \A k \in 1..Len(ret.result) : ret.result[k].email # call.families[u].email

\* The candidates of a last name, and what the name has to contribute
Candidates(last) == SelectSeq(call.families, LAMBDA u : u.last = last)
FirstNameInText(u) == \E i \in 1..Len(Words) : Words[i] = Lower(u.first)
ExpectedContribution(last) ==
    IF Len(Candidates(last)) = 1 THEN Candidates(last)
    ELSE IF \A i \in 1..Len(Candidates(last)) : ~FirstNameInText(Candidates(last)[i])
         THEN Candidates(last)
         ELSE SelectSeq(Candidates(last), FirstNameInText)

RECURSIVE ExpectedMatches(_)
ExpectedMatches(lasts) ==
    IF lasts = <<>> THEN <<>>
    ELSE ExpectedContribution(Head(lasts)) \o ExpectedMatches(Tail(lasts))

\* C19: every detected last name contributes its single candidate, or all
\* its candidates when no word of the text is the first name of one, or
\* else exactly the candidates whose first name is a word of the text.
C19_Disambiguation ==
    Extracted => ret.matched = ExpectedMatches(ret.detected)

C19_Witness ==
    /\ Extracted
    /\ Len(ret.detected) = 1
    /\ Len(Candidates(ret.detected[1])) = 3
    /\ FirstNameInText(Candidates(ret.detected[1])[1])
    /\ ~FirstNameInText(Candidates(ret.detected[1])[2])
    /\ FirstNameInText(Candidates(ret.detected[1])[3])
    /\ ret.matched = <<Candidates(ret.detected[1])[1], Candidates(ret.detected[1])[3]>>

\* The elements of a list at their first occurrence, in order
RECURSIVE FirstOccurrences(_, _)
FirstOccurrences(l, i) ==
    IF i > Len(l) THEN <<>>
    ELSE (IF \E j \in 1..(i - 1) : l[j].email = l[i].email THEN <<>> ELSE <<l[i]>>)
         \o FirstOccurrences(l, i + 1)

\* C20: the returned list holds no unit twice, and holds the matched units
\* in the order of their first occurrence among the matches.
C20_DedupKeepsOrder ==
    Extracted =>
        /\ \A i, j \in 1..Len(ret.result) :
              ret.result[i].email = ret.result[j].email => i = j
        /\ ret.result = FirstOccurrences(ret.matched, 1)

C20_Witness ==
    /\ Extracted
    /\ Len(ret.matched) = 2
    /\ Len(ret.result) = 1
    /\ Len(ret.detected) = 2

\* C21: for every text and every directory built from a unit list, the
\* returned list is empty when no last name is detected, and otherwise a
\* non-empty list of units of the directory that carry a detected last name.
C21_AlwaysReturnsCandidates ==
    Extracted =>
        /\ ret.detected = <<>> => ret.result = <<>>
        /\ ret.detected # <<>> => ret.result # <<>>
        /\ \A k \in 1..Len(ret.result) :
              /\ \E u \in 1..Len(call.families) : call.families[u] = ret.result[k]
              /\ \E d \in 1..Len(ret.detected) : ret.detected[d] = ret.result[k].last

C21_Witness ==
    /\ Extracted
    /\ Len(Words) >= 2
    /\ Len(call.families) >= 2
    /\ ret.detected = <<>>
    /\ ret.result = <<>>

\* ---- helpers of the claims on the whole pipeline
InputUnits == {families[i].email : i \in 1..Len(families)}
TargetsInList ==
    \A k \in 1..Len(requests_map) : \A j \in 1..Len(requests_map[k][2]) :
        requests_map[k][2][j].email \in InputUnits
KeysInList == \A k \in 1..Len(requests_map) : requests_map[k][1].email \in InputUnits

\* C22: when the sizes of the input units sum to at most the capacity, the
\* pipeline returns one area of one table that holds every input unit, and
\* no conflict.
C22_AllAtOneTable ==
    (pc = "done" /\ families # <<>> /\ SumSizes(families) <= table_size) =>
        /\ Len(areas) = 1
        /\ Len(areas[1]) = 1
        /\ \A e \in InputUnits : \E k \in 1..Len(areas[1][1]) : areas[1][1][k].email = e
        /\ conflicts = <<>>

\* One not-found triple per request of the map, in order
RECURSIVE AllNotFound(_)
AllNotFound(items) ==
    IF items = <<>> THEN <<>>
    ELSE [j \in 1..Len(Head(items)[2]) |-> <<Head(items)[1], Head(items)[2][j], NotFound>>]
         \o AllNotFound(Tail(items))

\* C23: with an empty unit list the pipeline does not raise and returns no
\* clusters, no areas and an empty conflict list.
C23_EmptyListEmptyResult ==
    families = <<>> =>
        /\ pc # "raised"
        /\ pc = "done" => (clusters = <<>> /\ areas = <<>> /\ conflicts = <<>>)

\* C23 as amended: with an empty unit list the pipeline does not raise and
\* returns no clusters and no areas; the conflict list holds one not-found
\* triple per request of the request map, so it is empty when the map
\* holds no request.
C23_EmptyListReportsRequests ==
    families = <<>> =>
        /\ pc # "raised"
        /\ pc = "done" =>
              /\ clusters = <<>>
              /\ areas = <<>>
              /\ conflicts = AllNotFound(requests_map)
              /\ AllRequestsEmpty => conflicts = <<>>

C23_Witness ==
    /\ families = <<>>
    /\ pc = "done"
    /\ debug
    /\ Len(conflicts) >= 2
    /\ areas = <<>>

\* The position of an input unit in the unit list
PosInInput(e) == CHOOSE i \in 1..Len(call.families) : call.families[i].email = e

\* C24: the first member of every returned cluster is an input unit, the
\* clusters come in the order of these units in the unit list, and sorting
\* them by that position changes nothing.
C24_ClustersInSeedOrder ==
    Built =>
        /\ \A c \in 1..Len(ret.first) :
              /\ ret.first[c] # <<>>
              /\ ret.first[c][1].email \in InputEmails
        /\ \A c, d \in 1..Len(ret.first) :
              c < d => PosInInput(ret.first[c][1].email) < PosInInput(ret.first[d][1].email)
        /\ SortClusters(ret.first, <<>>, call.families) = ret.first

C24_Witness ==
    /\ Built
    /\ Len(ret.first) = 2
    /\ Len(ret.first[1]) = 1
    /\ Len(ret.first[2]) = 2
    /\ Len(call.families) = 3

Prefix(s, t) == Len(s) <= Len(t) /\ SubSeq(t, 1, Len(s)) = s

\* C25: in every step of the pipeline each table's unit list is a prefix of
\* its list after the step, each area's table list keeps its tables in
\* place and only grows at the end, and the areas other than the one chosen
\* for the cluster of the step are unchanged.
C25_PlacementOnlyAppends ==
    [][/\ Len(areas) <= Len(areas')
       /\ \A a \in 1..Len(areas) :
             /\ Len(areas[a]) <= Len(areas'[a])
             /\ \A t \in 1..Len(areas[a]) : Prefix(areas[a][t], areas'[a][t])
             /\ (areas' # areas /\ a # last_area' + 1) => areas'[a] = areas[a]]_vars

C25_Witness ==
    /\ pc = "loop"
    /\ done_clusters = 3
    /\ Len(areas) = 2
    /\ \E a \in 1..2 : Len(areas[a]) >= 1 /\ Len(areas[a][1]) = 2

\* The units of a cluster that are not oversized, and the units of the
\* returned cluster that are units of the input cluster
SmallIn == SelectSeq(call.cluster, LAMBDA f : Size(f) <= call.table_size)
SmallOut ==
    SelectSeq(ret.cluster, LAMBDA f : \E i \in 1..Len(call.cluster) : call.cluster[i] = f)

\* C26: the call returns; the units of at most the capacity are in the
\* returned cluster unchanged and in their order, and a cluster without an
\* oversized unit comes back as it was, with the request map as it was.
C26_SmallUnitsPassThrough ==
    SplitReturned =>
        /\ ~ret.raised
        /\ SmallOut = SmallIn
        /\ Oversized = {} => (ret.cluster = call.cluster /\ ret.requests_map = call.requests_map)

\* The tokens of the normalized text as the claim describes them: the
\* lower-cased words, a possessive suffix 's stripped from a whole word,
\* other punctuation removed
StripPossessive(w) ==
    IF Len(w) >= 2 /\ SubSeq(w, Len(w) - 1, Len(w)) = <<"'", "s">>
    THEN SubSeq(w, 1, Len(w) - 2) ELSE w
Tokens == [i \in 1..Len(RawWords) |-> StripPunctuation(StripPossessive(RawWords[i]))]

\* C27: in a call that does not enable fuzzy matching a unit is returned
\* only when its last name, lower-cased, is a whole token of the text.
C27_WholeTokenOnly ==
    Extracted =>
        \A k \in 1..Len(ret.result) :
            \E i \in 1..Len(Tokens) : Tokens[i] = Lower(ret.result[k].last)

\* C28: every unit seated in the returned layout is a unit of the input list.
C28_OnlyInputUnitsSeated ==
    pc = "done" => \A i \in 1..Len(SeatedUnits) : SeatedUnits[i].email \in InputUnits

\* C29: when every key of the request map is an input unit, the pipeline
\* returns no conflict, also when a unit requests itself.
C29_NoConflictForListedKeys ==
    (pc = "done" /\ KeysInList) => conflicts = <<>>

C29_Witness ==
    /\ pc = "done"
    /\ KeysInList
    /\ conflicts = <<>>
    /\ Len(areas) >= 2
    /\ \E k \in 1..Len(requests_map) :
          requests_map[k][2] # <<>> /\ requests_map[k][2][1].email = requests_map[k][1].email
    /\ \E k \in 1..Len(requests_map) :
          requests_map[k][2] # <<>> /\ requests_map[k][2][1].email # requests_map[k][1].email

\* C30: after each cluster the pipeline loop has processed, every area's
\* used-seat counter equals the sum of the sizes of the units seated at the
\* area's tables, the areas are numbered 0..n-1 without a gap (one counter per
\* area, the last area used among them), every area holds at least one table
\* and every table at least one unit.
RECURSIVE SeatsOfArea(_)
SeatsOfArea(tables) ==
    IF tables = <<>> THEN 0 ELSE SumSizes(Head(tables)) + SeatsOfArea(Tail(tables))

C30_AreaBookkeeping ==
    (pc \in {"loop", "done"} /\ done_clusters >= 1) =>
        /\ Len(area_used) = Len(areas)
        /\ Len(areas) >= 1
        /\ last_area \in 0..(Len(areas) - 1)
        /\ \A a \in 1..Len(areas) :
              /\ area_used[a] = SeatsOfArea(areas[a])
              /\ Len(areas[a]) >= 1
              /\ \A t \in 1..Len(areas[a]) : Len(areas[a][t]) >= 1

C30_Witness ==
    /\ pc = "loop"
    /\ done_clusters = 2
    /\ Len(areas) = 2
    /\ Len(areas[1]) = 2
    /\ area_used[1] = 3
    /\ area_used[2] = 2

====
